---------------------------- MODULE Spec2Model ----------------------------
(***************************************************************************)
(* Seat allocation and booking/payment life cycle of the bus booking       *)
(* server: BookingCreateSerializer (booking/serializers.py),               *)
(* BookingViewSet (booking/views.py) and PaymentViewSet                    *)
(* (payments/views.py), over one trip; and the reference numbers of        *)
(* agents (agents/models.py, agents/views.py) and bus quotes               *)
(* (quotes/models.py, quotes/views.py).                                    *)
(*                                                                         *)
(* The database runs in autocommit: but for register_agent no handler      *)
(* opens a transaction, so every ORM statement (a query, a save(), a       *)
(* create(), an update()) is one atomic step and the statements of         *)
(* concurrent requests interleave.  An instance loaded by a request is a   *)
(* private copy; save() writes every field of that copy back to the row.   *)
(***************************************************************************)
EXTENDS Integers, Sequences, FiniteSets

(* ------------------------------ bounds --------------------------------- *)

\* Seats of the trip's bus (Bus.total_seats; the trip starts with all free).
TotalSeats == 2
\* Largest number_of_seats a booking request asks for.
MaxSeatsPerBooking == 2
\* Server workers, each serving one request at a time.
NumWorkers == 3
\* Workers that take requests of every kind at the same time (Spec).
Concurrency == 2
\* Booking and payment rows under concurrent requests of every kind (Spec).
MaxBookings == 1
MaxPayments == 1
\* Booking and payment rows when requests run one at a time (SeqSpec).
SeqMaxBookings == 2
SeqMaxPayments == 2
\* Largest available_seats the model follows (the code sets no limit).
MaxTracked == 4

Workers == 1..NumWorkers

VARIABLES
    available_seats,  \* Trip.available_seats, the stored column
    trip_status,      \* Trip.status
    departed,         \* trip.scheduled_departure <= timezone.now()
    bookings,         \* the Booking table: row id -> row
    payments,         \* the Payment table: row id -> row
    req,              \* per worker: the request it serves, its locals, its last response
    hist,             \* history (SeqSpec): the last booking created and the releases since
    agents,           \* the Agent table: row id -> reference_number
    quotes,           \* the BusQuote table: row id -> reference_number
    month,            \* the calendar month of datetime.now()
    late              \* the bookings and payments whose two hours have passed

vars == <<available_seats, trip_status, departed, bookings, payments, req, hist,
          agents, quotes, month, late>>

\* The stored references, and the clock: the month and the deadlines passed.
registry == <<agents, quotes, month, late>>

db == <<available_seats, trip_status, bookings, payments>>

(* ------------------------------ rows ----------------------------------- *)

\* The locals of a request that has loaded no booking yet.
NoBooking ==
    [number_of_seats |-> 0, seat_numbers |-> <<>>, booking_status |-> "none",
     payment_status |-> "none", check_in_time |-> FALSE]

\* The row Booking.objects.create inserts: both statuses default to pending.
NewBooking(n, seat_numbers) ==
    [number_of_seats |-> n, seat_numbers |-> seat_numbers, booking_status |-> "pending",
     payment_status |-> "pending", check_in_time |-> FALSE]

\* The row Payment.objects.create inserts: status defaults to pending.
NewPayment(b) == [booking |-> b, status |-> "pending"]

BookingIds == 1..Len(bookings)
PaymentIds == 1..Len(payments)

(* ----------------------------- requests -------------------------------- *)

Idle ==
    [pc |-> "idle", op |-> "none", target |-> 0, n |-> 0, seat_numbers |-> <<>>, seats |-> 0,
     bk |-> NoBooking, ids |-> {}, visible |-> {}, ref |-> <<>>, resp |-> "none"]

\* A handler has returned: the worker keeps what it answered, to which request.
Responded(op, target, resp) ==
    [Idle EXCEPT !.pc = "done", !.op = op, !.target = target, !.resp = resp]

Free(w) == req[w].pc \in {"idle", "done"}

\* No booking is past its payment_deadline, no payment older than two hours.
NoneLate == [bookings |-> {}, payments |-> {}]

\* No booking created yet.
NoHist == [created |-> 0, before |-> 0, released |-> <<>>]

Init ==
    /\ available_seats = TotalSeats
    /\ trip_status \in {"scheduled", "cancelled"}
    /\ departed = FALSE
    /\ bookings = <<>>
    /\ payments = <<>>
    /\ req = [w \in Workers |-> Idle]
    /\ hist = NoHist
    /\ agents = <<>>
    /\ quotes = <<>>
    /\ month = 1
    /\ late = NoneLate


SetReq(w, r) == req' = [req EXCEPT ![w] = r]

(* ------------------- BookingCreateSerializer (POST /bookings) ---------- *)

\* validate: the trip takes bookings only while scheduled or boarding.
Bookable(status) == status \in {"scheduled", "boarding"}

\* HasCapacity with the comparison off by one: a fault C9 must detect.
HasCapacityOffByOne(seats, n) == ~(seats + 1 < n)

\* validate: "if trip.available_seats < number_of_seats: raise".
HasCapacity(seats, n) == ~(seats < n)

\* create: "trip.available_seats -= number_of_seats".
Reserve(seats, n) == seats - n

\* Rows that exist or are about to be inserted by a validated request.
BookingsClaimed == Len(bookings) + Cardinality({v \in Workers : req[v].pc = "book_insert"})
PaymentsClaimed == Len(payments) + Cardinality({v \in Workers : req[v].pc = "pay_insert"})

\* The seat list "1,2,...,k".
FirstSeats(k) == [i \in 1..k |-> i]

\* is_valid(): the field checks pass (well_formed: passenger phone, seat
\* numbers not blank), the trip is loaded (PrimaryKeyRelatedField) and
\* validate() checks it; n is number_of_seats, seat_numbers the seats listed
\* in the request, of which validate() looks at the count only.
BookValidate(w, n, seat_numbers, well_formed) ==
    /\ Free(w)
    /\ IF well_formed /\ Bookable(trip_status) /\ HasCapacity(available_seats, n)
                      /\ Len(seat_numbers) = n
         THEN SetReq(w, [Idle EXCEPT !.pc = "book_insert", !.op = "book",
                                     !.n = n, !.seat_numbers = seat_numbers,
                                     !.seats = available_seats])
         ELSE SetReq(w, [Responded("book", 0, "error") EXCEPT !.n = n])
    /\ UNCHANGED <<available_seats, trip_status, departed, bookings, payments, hist, registry>>

\* create: Booking.objects.create(...).
BookInsert(w) ==
    /\ req[w].pc = "book_insert"
    /\ bookings' = Append(bookings, NewBooking(req[w].n, req[w].seat_numbers))
    /\ SetReq(w, [req[w] EXCEPT !.pc = "book_save_trip", !.target = Len(bookings) + 1])
    /\ UNCHANGED <<available_seats, trip_status, departed, payments, hist, registry>>

\* create: trip.available_seats -= number_of_seats; trip.save(), on the trip
\* instance validate() saw.
BookSaveTrip(w) ==
    /\ req[w].pc = "book_save_trip"
    /\ available_seats' = Reserve(req[w].seats, req[w].n)
    /\ SetReq(w, Responded("book", req[w].target, "ok"))
    /\ UNCHANGED <<trip_status, departed, bookings, payments, registry>>

\* trip.save() raises (the connection drops, the worker is killed): the
\* exception leaves create() with the inserted row committed.
BookSaveTripFails(w) ==
    /\ req[w].pc = "book_save_trip"
    /\ SetReq(w, Responded("book", req[w].target, "crash"))
    /\ UNCHANGED <<available_seats, trip_status, departed, bookings, payments, hist, registry>>

(* ------------------- BookingViewSet.cancel ----------------------------- *)

\* CancelRefused without 'cancelled' in the list: a fault C6 must detect.
CancelRefusedOnlyCompleted(bk) == bk.booking_status \in {"completed"}

\* CancelRefused without 'completed' in the list: a fault C25 must detect.
CancelRefusedOnlyCancelled(bk) == bk.booking_status \in {"cancelled"}

\* cancel: "if booking.booking_status in ['cancelled', 'completed']".
CancelRefused(bk) == bk.booking_status \in {"cancelled", "completed"}

\* Release returning one seat whatever the booking holds: a fault C7 must detect.
ReleaseOneSeat(seats, n) == seats + 1

\* cancel / refund: "available_seats += booking.number_of_seats".
Release(seats, n) == seats + n

\* get_object() and the status check; visible: the row is in get_queryset().
CancelGet(w, b, visible) ==
    /\ Free(w)
    /\ b \in BookingIds
    /\ IF visible /\ ~CancelRefused(bookings[b])
         THEN SetReq(w, [Idle EXCEPT !.pc = "cancel_read_trip", !.op = "cancel",
                                     !.target = b, !.bk = bookings[b]])
         ELSE SetReq(w, Responded("cancel", b, "error"))
    /\ UNCHANGED <<available_seats, trip_status, departed, bookings, payments, hist, registry>>

\* booking.trip is loaded; "if booking.trip.scheduled_departure <= timezone.now()".
CancelReadTrip(w) ==
    /\ req[w].pc = "cancel_read_trip"
    /\ IF departed
         THEN SetReq(w, Responded("cancel", req[w].target, "error"))
         ELSE SetReq(w, [req[w] EXCEPT !.pc = "cancel_save_booking",
                                       !.seats = available_seats])
    /\ UNCHANGED <<available_seats, trip_status, departed, bookings, payments, hist, registry>>

\* booking.booking_status = 'cancelled'; booking.save().
CancelSaveBooking(w) ==
    /\ req[w].pc = "cancel_save_booking"
    /\ bookings' = [bookings EXCEPT ![req[w].target] =
                       [req[w].bk EXCEPT !.booking_status = "cancelled"]]
    /\ SetReq(w, [req[w] EXCEPT !.pc = "cancel_save_trip"])
    /\ UNCHANGED <<available_seats, trip_status, departed, payments, hist, registry>>

\* booking.trip.available_seats += booking.number_of_seats; booking.trip.save().
CancelSaveTrip(w) ==
    /\ req[w].pc = "cancel_save_trip"
    /\ available_seats' = Release(req[w].seats, req[w].bk.number_of_seats)
    /\ SetReq(w, Responded("cancel", req[w].target, "ok"))
    /\ UNCHANGED <<trip_status, departed, bookings, payments, registry>>

(* ------------------- BookingViewSet.check_in --------------------------- *)

CheckInGet(w, b, visible) ==
    /\ Free(w)
    /\ b \in BookingIds
    /\ IF visible /\ bookings[b].booking_status = "confirmed"
                  /\ ~bookings[b].check_in_time
         THEN SetReq(w, [Idle EXCEPT !.pc = "checkin_save", !.op = "check_in",
                                     !.target = b, !.bk = bookings[b]])
         ELSE SetReq(w, Responded("check_in", b, "error"))
    /\ UNCHANGED <<available_seats, trip_status, departed, bookings, payments, hist, registry>>

\* booking.check_in_time = timezone.now(); booking.save().
CheckInSave(w) ==
    /\ req[w].pc = "checkin_save"
    /\ bookings' = [bookings EXCEPT ![req[w].target] =
                       [req[w].bk EXCEPT !.check_in_time = TRUE]]
    /\ SetReq(w, Responded("check_in", req[w].target, "ok"))
    /\ UNCHANGED <<available_seats, trip_status, departed, payments, hist, registry>>

(* ------------------- PaymentViewSet.create (POST /payments) ------------ *)

\* PaymentCreateSerializer.validate: "booking.payment_status == 'paid'".
AlreadyPaid(bk) == bk.payment_status = "paid"

\* is_valid() loads the booking and validates; well_formed: the field checks
\* (mobile money provider and number) pass; owns: the caller is staff or the
\* booking's client.
PayValidate(w, b, well_formed, owns) ==
    /\ Free(w)
    /\ b \in BookingIds
    /\ IF well_formed /\ ~AlreadyPaid(bookings[b]) /\ owns
         THEN SetReq(w, [Idle EXCEPT !.pc = "pay_insert", !.op = "pay",
                                     !.target = b, !.bk = bookings[b]])
         ELSE SetReq(w, Responded("pay", b, "error"))
    /\ UNCHANGED <<available_seats, trip_status, departed, bookings, payments, hist, registry>>

\* serializer.save(): Payment.objects.create; then "if payment.status ==
\* 'successful'" the booking instance is marked paid and confirmed and saved.
PayInsert(w) ==
    LET payment == NewPayment(req[w].target) IN
    /\ req[w].pc = "pay_insert"
    /\ payments' = Append(payments, payment)
    /\ bookings' = IF payment.status = "successful"
                     THEN [bookings EXCEPT ![req[w].target] =
                              [req[w].bk EXCEPT !.payment_status = "paid",
                                                !.booking_status = "confirmed"]]
                     ELSE bookings
    /\ SetReq(w, Responded("pay", Len(payments) + 1, "ok"))
    /\ UNCHANGED <<available_seats, trip_status, departed, hist, registry>>

(* ------------------- PaymentViewSet.process ---------------------------- *)

\* ProcessRefused for successful payments only: a fault C22 must detect.
ProcessRefusedOnlySuccessful(p) == p.status = "successful"

\* process: "if payment.status != 'pending'" the request is refused.
ProcessRefused(p) == p.status # "pending"

\* process: the booking of a successful payment, as saved.
Confirmed(bk) == [bk EXCEPT !.payment_status = "paid", !.booking_status = "confirmed"]

\* get_object(), the status check, and the gateway's answer in the request.
ProcessGet(w, p, visible, payment_successful) ==
    /\ Free(w)
    /\ p \in PaymentIds
    /\ IF visible /\ ~ProcessRefused(payments[p])
         THEN SetReq(w, [Idle EXCEPT !.op = "process", !.target = p,
                            !.pc = IF payment_successful THEN "process_read_booking"
                                                         ELSE "process_save_failed"])
         ELSE SetReq(w, Responded("process", p, "error"))
    /\ UNCHANGED <<available_seats, trip_status, departed, bookings, payments, hist, registry>>

\* booking = payment.booking.
ProcessReadBooking(w) ==
    /\ req[w].pc = "process_read_booking"
    /\ SetReq(w, [req[w] EXCEPT !.pc = "process_save_booking",
                                !.bk = bookings[payments[req[w].target].booking]])
    /\ UNCHANGED <<available_seats, trip_status, departed, bookings, payments, hist, registry>>

\* booking.payment_status = 'paid'; booking.booking_status = 'confirmed'; booking.save().
ProcessSaveBooking(w) ==
    /\ req[w].pc = "process_save_booking"
    /\ bookings' = [bookings EXCEPT ![payments[req[w].target].booking] = Confirmed(req[w].bk)]
    /\ SetReq(w, [req[w] EXCEPT !.pc = "process_save_payment"])
    /\ UNCHANGED <<available_seats, trip_status, departed, payments, hist, registry>>

\* payment.status = 'successful'; payment.save().
ProcessSavePayment(w) ==
    /\ req[w].pc = "process_save_payment"
    /\ payments' = [payments EXCEPT ![req[w].target].status = "successful"]
    /\ SetReq(w, Responded("process", req[w].target, "ok"))
    /\ UNCHANGED <<available_seats, trip_status, departed, bookings, hist, registry>>

\* ProcessSaveFailed marking the booking's payment failed as well: a fault C23
\* must detect.
ProcessSaveFailedMarksBooking(w) ==
    /\ req[w].pc = "process_save_failed"
    /\ payments' = [payments EXCEPT ![req[w].target].status = "failed"]
    /\ bookings' = [bookings EXCEPT ![payments[req[w].target].booking].payment_status = "failed"]
    /\ SetReq(w, Responded("process", req[w].target, "declined"))
    /\ UNCHANGED <<available_seats, trip_status, departed, hist, registry>>

\* payment.status = 'failed'; payment.save().
ProcessSaveFailed(w) ==
    /\ req[w].pc = "process_save_failed"
    /\ payments' = [payments EXCEPT ![req[w].target].status = "failed"]
    /\ SetReq(w, Responded("process", req[w].target, "declined"))
    /\ UNCHANGED <<available_seats, trip_status, departed, bookings, hist, registry>>

(* ------------------- PaymentViewSet.refund ----------------------------- *)

\* refund: "if payment.status != 'successful'" the request is refused.
RefundRefused(p) == p.status # "successful"

\* refund: the booking of a refunded payment, as saved.
Refunded(bk) == [bk EXCEPT !.payment_status = "refunded", !.booking_status = "refunded"]

RefundGet(w, p, visible) ==
    /\ Free(w)
    /\ p \in PaymentIds
    /\ IF visible /\ ~RefundRefused(payments[p])
         THEN SetReq(w, [Idle EXCEPT !.pc = "refund_save_payment", !.op = "refund",
                                     !.target = p])
         ELSE SetReq(w, Responded("refund", p, "error"))
    /\ UNCHANGED <<available_seats, trip_status, departed, bookings, payments, hist, registry>>

\* payment.status = 'refunded'; payment.save().
RefundSavePayment(w) ==
    /\ req[w].pc = "refund_save_payment"
    /\ payments' = [payments EXCEPT ![req[w].target].status = "refunded"]
    /\ SetReq(w, [req[w] EXCEPT !.pc = "refund_read_booking"])
    /\ UNCHANGED <<available_seats, trip_status, departed, bookings, hist, registry>>

\* booking = payment.booking.
RefundReadBooking(w) ==
    /\ req[w].pc = "refund_read_booking"
    /\ SetReq(w, [req[w] EXCEPT !.pc = "refund_save_booking",
                                !.bk = bookings[payments[req[w].target].booking]])
    /\ UNCHANGED <<available_seats, trip_status, departed, bookings, payments, hist, registry>>

\* booking.payment_status = booking.booking_status = 'refunded'; booking.save().
RefundSaveBooking(w) ==
    /\ req[w].pc = "refund_save_booking"
    /\ bookings' = [bookings EXCEPT ![payments[req[w].target].booking] = Refunded(req[w].bk)]
    /\ SetReq(w, [req[w] EXCEPT !.pc = "refund_read_trip"])
    /\ UNCHANGED <<available_seats, trip_status, departed, payments, hist, registry>>

\* trip = booking.trip.
RefundReadTrip(w) ==
    /\ req[w].pc = "refund_read_trip"
    /\ SetReq(w, [req[w] EXCEPT !.pc = "refund_save_trip", !.seats = available_seats])
    /\ UNCHANGED <<available_seats, trip_status, departed, bookings, payments, hist, registry>>

\* trip.available_seats += booking.number_of_seats; trip.save().
RefundSaveTrip(w) ==
    /\ req[w].pc = "refund_save_trip"
    /\ available_seats' = Release(req[w].seats, req[w].bk.number_of_seats)
    /\ SetReq(w, Responded("refund", req[w].target, "ok"))
    /\ UNCHANGED <<trip_status, departed, bookings, payments, registry>>

(* ------------------- PaymentViewSet.retry_failed ----------------------- *)

\* FailedAmong without the status filter: a fault C24 must detect.
ListedAmong(ids) == ids \cap PaymentIds

\* The rows with status='failed' among the payments with the given ids.
FailedAmong(ids) == {p \in ids \cap PaymentIds : payments[p].status = "failed"}

\* "if not payment_ids" and "if not failed_payments.exists()", where
\* failed_payments is get_queryset().filter(id__in=payment_ids,
\* status='failed') and visible the ids in the caller's get_queryset().
RetryExists(w, payment_ids, visible) ==
    /\ Free(w)
    /\ IF payment_ids # {} /\ FailedAmong(payment_ids \cap visible) # {}
         THEN SetReq(w, [Idle EXCEPT !.pc = "retry_update", !.op = "retry",
                                     !.ids = payment_ids, !.visible = visible])
         ELSE SetReq(w, Responded("retry", 0, "error"))
    /\ UNCHANGED <<available_seats, trip_status, departed, bookings, payments, hist, registry>>

\* failed_payments.update(status='pending', ...): one UPDATE ... WHERE, the
\* queryset evaluated again.
RetryUpdate(w) ==
    /\ req[w].pc = "retry_update"
    /\ payments' = [p \in PaymentIds |->
                       IF p \in FailedAmong(req[w].ids \cap req[w].visible)
                         THEN [payments[p] EXCEPT !.status = "pending"]
                         ELSE payments[p]]
    /\ SetReq(w, Responded("retry", 0, "ok"))
    /\ UNCHANGED <<available_seats, trip_status, departed, bookings, hist, registry>>

(* ------------------- environment --------------------------------------- *)

\* The clock passes the trip's scheduled_departure.
Depart ==
    /\ ~departed
    /\ departed' = TRUE
    /\ UNCHANGED <<available_seats, trip_status, bookings, payments, req, hist, registry>>

\* Staff mark a travelled booking completed (BookingAdmin edits the status).
AdminComplete(b) ==
    /\ b \in BookingIds
    /\ bookings[b].booking_status = "confirmed"
    /\ bookings' = [bookings EXCEPT ![b].booking_status = "completed"]
    /\ UNCHANGED <<available_seats, trip_status, departed, payments, req, hist, registry>>

(* ------------------- history ------------------------------------------- *)

\* A booking creation completes: remember the booking and the seats before it.
RecordCreate(w) ==
    hist' = [created |-> req[w].target, before |-> available_seats, released |-> <<>>]

\* A release of booking b completes: the first two since the creation are kept.
RecordRelease(b) ==
    hist' = [hist EXCEPT !.released = IF Len(@) < 2 THEN Append(@, b) ELSE @]

\* The booking a worker's cancel or refund releases.
ReleasedBooking(w) ==
    IF req[w].op = "cancel" THEN req[w].target ELSE payments[req[w].target].booking

\* available_seats stays within what the model follows.
Tracked(w) == Release(req[w].seats, req[w].bk.number_of_seats) <= MaxTracked

(* ------------------- specifications ------------------------------------ *)

\* The statements of worker w that do not write the trip, with at most maxB
\* booking rows and maxP payment rows (a request that would add a row past
\* the bound is not taken).
Serve(w, maxB, maxP) ==
    \/ \E n \in 1..MaxSeatsPerBooking, listed \in 1..MaxSeatsPerBooking,
          well_formed \in BOOLEAN :
           (BookingsClaimed < maxB \/ available_seats < n)
               /\ BookValidate(w, n, FirstSeats(listed), well_formed)
    \/ BookInsert(w)
    \/ \E b \in 1..maxB, visible \in BOOLEAN : CancelGet(w, b, visible)
    \/ CancelReadTrip(w)
    \/ CancelSaveBooking(w)
    \/ \E b \in 1..maxB, visible \in BOOLEAN : CheckInGet(w, b, visible)
    \/ CheckInSave(w)
    \/ \E b \in 1..maxB, well_formed \in BOOLEAN, owns \in BOOLEAN :
           PaymentsClaimed < maxP /\ PayValidate(w, b, well_formed, owns)
    \/ PayInsert(w)
    \/ \E p \in 1..maxP, visible \in BOOLEAN, ok \in BOOLEAN : ProcessGet(w, p, visible, ok)
    \/ ProcessReadBooking(w)
    \/ ProcessSaveBooking(w)
    \/ ProcessSavePayment(w)
    \/ ProcessSaveFailed(w)
    \/ \E p \in 1..maxP, visible \in BOOLEAN : RefundGet(w, p, visible)
    \/ RefundSavePayment(w)
    \/ RefundReadBooking(w)
    \/ RefundSaveBooking(w)
    \/ RefundReadTrip(w)
    \/ \E payment_ids \in SUBSET (1..maxP), visible \in SUBSET (1..maxP) :
           RetryExists(w, payment_ids, visible)
    \/ RetryUpdate(w)

Environment ==
    \/ Depart
    \/ \E b \in 1..SeqMaxBookings : AdminComplete(b)

\* Requests of every kind in flight at once, their statements interleaved.
Next ==
    \/ \E w \in 1..Concurrency : Serve(w, MaxBookings, MaxPayments)
    \/ \E w \in 1..Concurrency : BookSaveTrip(w) /\ UNCHANGED hist
    \/ \E w \in 1..Concurrency : Tracked(w) /\ CancelSaveTrip(w) /\ UNCHANGED hist
    \/ \E w \in 1..Concurrency : Tracked(w) /\ RefundSaveTrip(w) /\ UNCHANGED hist
    \/ Environment

Spec == Init /\ [][Next]_vars

\* One request at a time: each handler runs to its response before the next starts.
SeqNext ==
    \/ Serve(1, SeqMaxBookings, SeqMaxPayments)
    \/ BookSaveTrip(1) /\ RecordCreate(1)
    \/ Tracked(1) /\ CancelSaveTrip(1) /\ RecordRelease(ReleasedBooking(1))
    \/ Tracked(1) /\ RefundSaveTrip(1) /\ RecordRelease(ReleasedBooking(1))
    \/ Environment

SeqSpec == Init /\ [][SeqNext]_vars

\* Every worker serves one well-formed booking-creation request for one seat,
\* all at once.
ReserveNext ==
    \/ \E w \in Workers : req[w].pc = "idle" /\ BookValidate(w, 1, FirstSeats(1), TRUE)
    \/ \E w \in Workers : BookInsert(w)
    \/ \E w \in Workers : BookSaveTrip(w) /\ UNCHANGED hist

ReserveSpec == Init /\ [][ReserveNext]_vars

\* Booking creations and cancellations one at a time, where the trip.save()
\* of a creation may fail.
CrashNext ==
    \/ \E n \in 1..MaxSeatsPerBooking, listed \in 1..MaxSeatsPerBooking,
          well_formed \in BOOLEAN :
           (BookingsClaimed < SeqMaxBookings \/ available_seats < n)
               /\ BookValidate(1, n, FirstSeats(listed), well_formed)
    \/ BookInsert(1)
    \/ BookSaveTrip(1) /\ UNCHANGED hist
    \/ BookSaveTripFails(1)
    \/ \E b \in 1..SeqMaxBookings, visible \in BOOLEAN : CancelGet(1, b, visible)
    \/ CancelReadTrip(1)
    \/ CancelSaveBooking(1)
    \/ Tracked(1) /\ CancelSaveTrip(1) /\ UNCHANGED hist

CrashSpec == Init /\ [][CrashNext]_vars

(* ------------------- properties ---------------------------------------- *)

\* A booking holds its seats until it is cancelled or refunded.
HoldsSeats(bk) == bk.booking_status \notin {"cancelled", "refunded"}

RECURSIVE SoldUpTo(_)
SoldUpTo(k) ==
    IF k = 0 THEN 0
    ELSE SoldUpTo(k - 1)
         + (IF HoldsSeats(bookings[k]) THEN bookings[k].number_of_seats ELSE 0)

\* Seats sold on the trip: number_of_seats over the bookings that hold seats.
SeatsSold == SoldUpTo(Len(bookings))

Terminal(status) == status \in {"completed", "cancelled", "refunded"}

AllResponded == \A w \in Workers : req[w].pc = "done"
Answered(resp) == Cardinality({w \in Workers : req[w].pc = "done" /\ req[w].resp = resp})

\* C1: the seats sold on a trip never exceed its total_seats, and
\* available_seats never goes below 0 (ReserveSpec: concurrent creations).
C1_SoldWithinCapacity == SeatsSold <= TotalSeats /\ available_seats >= 0

\* C2: of N concurrent one-seat creations against a bookable trip with C < N
\* seats, once all have answered exactly C succeeded, N - C were rejected and
\* available_seats is 0 (ReserveSpec: N = NumWorkers, C = TotalSeats).
C2_ExactlyCapacitySucceed ==
    (AllResponded /\ Bookable(trip_status) /\ TotalSeats < NumWorkers)
        => /\ Answered("ok") = TotalSeats
           /\ Answered("error") = NumWorkers - TotalSeats
           /\ available_seats = 0

\* C3: a booking's seats are returned to the trip once only: no booking is
\* released twice by the cancels and refunds that concern it (SeqSpec).
C3_ReleasedOnce ==
    ~(Len(hist.released) = 2 /\ hist.released[1] = hist.released[2])

\* C4: once a booking's booking_status is completed, cancelled or refunded, no
\* step changes it (SeqSpec).
C4_TerminalStatusStays ==
    [][\A b \in BookingIds :
          Terminal(bookings[b].booking_status)
              => bookings'[b].booking_status = bookings[b].booking_status]_vars

\* The step in which a payment of booking b becomes successful: the booking
\* save of process with a successful gateway answer, or of a payment created
\* successful.
PaymentSucceedsFor(b) ==
    \E w \in Workers :
        \/ req[w].pc = "process_save_booking" /\ payments[req[w].target].booking = b
        \/ req[w].pc = "pay_insert" /\ req[w].target = b

\* C5: a booking is created pending, and becomes confirmed only from pending
\* and only in the step of a successful payment (SeqSpec).
C5_ConfirmedOnlyFromPending ==
    [][/\ \A b \in BookingIds :
              (bookings'[b].booking_status = "confirmed"
                  /\ bookings[b].booking_status # "confirmed")
                  => bookings[b].booking_status = "pending" /\ PaymentSucceedsFor(b)
       /\ \A b \in (Len(bookings) + 1)..Len(bookings') :
              bookings'[b].booking_status = "pending"]_vars

\* Worker w takes a new request of kind op in this step.
Takes(w, op) == Free(w) /\ req'[w] # req[w] /\ req'[w].op = op

\* C6: cancel on a booking whose booking_status is already cancelled is
\* rejected and changes neither the booking nor available_seats (Spec).
C6_CancelOfCancelledRejected ==
    [][\A w \in Workers :
          (Takes(w, "cancel") /\ bookings[req'[w].target].booking_status = "cancelled")
              => /\ req'[w].pc = "done" /\ req'[w].resp = "error"
                 /\ UNCHANGED db]_vars

C6_Witness ==
    \E w \in Workers :
        /\ req[w].pc = "done" /\ req[w].op = "cancel" /\ req[w].resp = "error"
        /\ bookings[req[w].target].booking_status = "cancelled"
        /\ available_seats = TotalSeats

\* C7: run one at a time, a booking creation followed by the release of that
\* booking (cancel, or refund of its payment) leaves available_seats at the
\* value it had before the creation (SeqSpec).
C7_ReserveThenReleaseRestores ==
    (hist.created # 0 /\ hist.released = <<hist.created>>)
        => available_seats = hist.before

C7_Witness ==
    /\ hist.created = 2 /\ hist.released = <<2>>
    /\ hist.before < TotalSeats
    /\ req[1].op = "refund" /\ req[1].resp = "ok"
    /\ bookings[2].number_of_seats = 1

\* C8: available_seats never exceeds total_seats: a release is capped (SeqSpec).
C8_AvailableWithinTotal == available_seats <= TotalSeats

\* C9: a creation request for n seats when available_seats < n is answered
\* with an error at once, inserts no booking and leaves available_seats (Spec).
C9_InsufficientSeatsRejected ==
    [][\A w \in Workers :
          (Takes(w, "book") /\ available_seats < req'[w].n)
              => /\ req'[w].pc = "done" /\ req'[w].resp = "error"
                 /\ UNCHANGED db]_vars

C9_Witness ==
    \E w \in Workers :
        /\ req[w].pc = "done" /\ req[w].op = "book" /\ req[w].resp = "error"
        /\ Bookable(trip_status)
        /\ available_seats < req[w].n
        /\ Len(bookings) = 1

\* C10: booking creation is all-or-nothing: with no request in flight, the
\* seats taken from the trip are those of the booking rows that hold seats,
\* also after a failure between the two writes (CrashSpec).
C10_RowIffSeatsTaken ==
    Free(1) => available_seats = TotalSeats - SeatsSold

(* ------------------- concurrent creations and cancels ------------------ *)

\* Every worker serves one request, all at once: a well-formed booking
\* creation, or the cancel of a booking that is stored by then.
ChurnNext ==
    \/ \E w \in Workers, n \in 1..MaxSeatsPerBooking :
           req[w].pc = "idle" /\ BookValidate(w, n, FirstSeats(n), TRUE)
    \/ \E w \in Workers : BookInsert(w)
    \/ \E w \in Workers : BookSaveTrip(w) /\ UNCHANGED hist
    \/ \E w \in Workers, b \in 1..NumWorkers :
           req[w].pc = "idle" /\ CancelGet(w, b, TRUE)
    \/ \E w \in Workers : CancelReadTrip(w)
    \/ \E w \in Workers : CancelSaveBooking(w)
    \/ \E w \in Workers : Tracked(w) /\ CancelSaveTrip(w) /\ UNCHANGED hist

ChurnSpec == Init /\ [][ChurnNext]_vars

\* The seats the request answered by worker w took from the trip (a creation
\* that succeeded) or gave back to it (a cancel that succeeded, negative).
SeatsTakenBy(w) ==
    IF req[w].pc = "done" /\ req[w].resp = "ok" /\ req[w].op = "book"
      THEN bookings[req[w].target].number_of_seats
    ELSE IF req[w].pc = "done" /\ req[w].resp = "ok" /\ req[w].op = "cancel"
      THEN 0 - bookings[req[w].target].number_of_seats
    ELSE 0

RECURSIVE SeatsTakenUpTo(_)
SeatsTakenUpTo(w) == IF w = 0 THEN 0 ELSE SeatsTakenUpTo(w - 1) + SeatsTakenBy(w)

\* C11: whatever the interleaving of concurrent creations and cancels on the
\* trip, once every request has been answered available_seats is the initial
\* value minus the seats of the successful creations plus the seats of the
\* successful releases: no write of available_seats is lost (ChurnSpec).
C11_NoLostUpdate ==
    (\A w \in Workers : Free(w))
        => available_seats = TotalSeats - SeatsTakenUpTo(NumWorkers)

(* ------------------- reference numbers (agents, quotes) ---------------- *)

\* A reference number is a string: two letters ("AG" for every row of the
\* Agent table, "BQ" for every row of the BusQuote table) and then decimal
\* digits.  A table holds the digits of each row, as a sequence of 0..9; the
\* order of two strings of one table is the order of their digits.

\* The calendar year of datetime.now().
Year == 2025
\* The width of the running number: "{new_number:03d}".
Width == 3
\* The width of the month: "{month:02d}".
MonthWidth == 2
\* The months the clock runs through.
MaxMonth == 2
\* References already stored for the month when the model starts (or none).
Backlog == 998
\* Rows a run adds to a table.
MaxIssued == 3

\* str(n), n >= 0.
RECURSIVE Decimal(_)
Decimal(n) == IF n < 10 THEN <<n>> ELSE Append(Decimal(n \div 10), n % 10)

\* "{n:0<width>d}": zeros on the left up to width; a longer number is not cut.
ZeroPad(n, width) == [i \in 1..(width - Len(Decimal(n))) |-> 0] \o Decimal(n)

\* int(s) for a string of digits.
RECURSIVE ToInt(_)
ToInt(s) ==
    IF s = <<>> THEN 0 ELSE 10 * ToInt(SubSeq(s, 1, Len(s) - 1)) + s[Len(s)]

\* s[-3:].
LastThree(s) == SubSeq(s, Len(s) - 2, Len(s))

\* The digits of f'AG{year}{month:02d}'.
Period(m) == Decimal(Year) \o ZeroPad(m, MonthWidth)

\* filter(reference_number__startswith=prefix).
StartsWith(s, prefix) == Len(s) >= Len(prefix) /\ SubSeq(s, 1, Len(prefix)) = prefix

Matching(table, prefix) == {table[i] : i \in {j \in DOMAIN table : StartsWith(table[j], prefix)}}

\* The string ordered last among S, whose members agree before position i: a
\* string that ends there is ordered before every longer one, the others are
\* ordered by the character at i.
RECURSIVE GreatestFrom(_, _)
GreatestFrom(S, i) ==
    LET longer == {s \in S : Len(s) >= i}
        chars  == {s[i] : s \in longer}
        top    == CHOOSE c \in chars : \A d \in chars : d <= c
    IN  IF longer = {} THEN CHOOSE s \in S : TRUE
        ELSE GreatestFrom({s \in longer : s[i] = top}, i + 1)

\* order_by('-reference_number').first() of a non-empty queryset.
Greatest(S) == GreatestFrom(S, 1)

\* generate_reference_number / BusQuote.save: the last stored reference of
\* the month, its last three characters as a number, plus one; 1 if none.
NextReference(table, m) ==
    LET found == Matching(table, Period(m))
        new_number == IF found # {} THEN ToInt(LastThree(Greatest(found))) + 1 ELSE 1
    IN  Period(m) \o ZeroPad(new_number, Width)

\* Conflicts with no unique constraint on the column: a fault C14 must detect.
NeverConflicts(table, ref) == FALSE

\* unique=True on reference_number: the INSERT raises IntegrityError.
Conflicts(table, ref) == \E i \in DOMAIN table : table[i] = ref

\* The table after k registrations of month m served one at a time.
Issued(m, k) == [i \in 1..k |-> Period(m) \o ZeroPad(i, Width)]

\* A run starts in a new month, or in a month with Backlog references stored.
RefInit ==
    /\ available_seats = TotalSeats
    /\ trip_status = "scheduled"
    /\ departed = FALSE
    /\ bookings = <<>>
    /\ payments = <<>>
    /\ req = [w \in Workers |-> Idle]
    /\ hist = NoHist
    /\ month = 1
    /\ late = NoneLate
    /\ agents \in {Issued(1, 0), Issued(1, Backlog)}
    /\ quotes \in {Issued(1, 0), Issued(1, Backlog)}

\* The run may add a row to the table (the model follows MaxIssued rows).
MayIssue(table) ==
    \E k \in {0, Backlog} : Len(table) >= k /\ Len(table) < k + MaxIssued

(* ------------------- register_agent (POST /agents/register) ------------ *)

\* serializer.is_valid(), inside transaction.atomic().
AgentValidate(w, valid) ==
    /\ Free(w)
    /\ IF valid
         THEN SetReq(w, [Idle EXCEPT !.pc = "agent_generate", !.op = "register"])
         ELSE SetReq(w, Responded("register", 0, "invalid"))
    /\ UNCHANGED <<db, departed, hist, registry>>

\* Agent.save: self.reference_number = self.generate_reference_number().
AgentGenerate(w) ==
    /\ req[w].pc = "agent_generate"
    /\ SetReq(w, [req[w] EXCEPT !.pc = "agent_insert",
                                !.ref = NextReference(agents, month)])
    /\ UNCHANGED <<db, departed, hist, registry>>

\* super().save() and the commit at the end of the atomic block (a row that is
\* not committed is not seen by the other requests' queries, and an INSERT of
\* its reference waits for the commit): the row is stored and the reference
\* returned, or IntegrityError reaches "except Exception" and the answer is 500.
AgentInsert(w) ==
    /\ req[w].pc = "agent_insert"
    /\ IF Conflicts(agents, req[w].ref)
         THEN /\ SetReq(w, [Responded("register", 0, "integrity_error")
                               EXCEPT !.ref = req[w].ref])
              /\ UNCHANGED agents
         ELSE /\ agents' = Append(agents, req[w].ref)
              /\ SetReq(w, [Responded("register", Len(agents) + 1, "ok")
                               EXCEPT !.ref = req[w].ref])
    /\ UNCHANGED <<db, departed, hist, quotes, month, late>>

(* ------------------- request_bus_quote (POST /quotes/request) ---------- *)

\* serializer.is_valid().
QuoteValidate(w, valid) ==
    /\ Free(w)
    /\ IF valid
         THEN SetReq(w, [Idle EXCEPT !.pc = "quote_generate", !.op = "quote"])
         ELSE SetReq(w, Responded("quote", 0, "invalid"))
    /\ UNCHANGED <<db, departed, hist, registry>>

\* BusQuote.save: the query for the last quote and the new reference.
QuoteGenerate(w) ==
    /\ req[w].pc = "quote_generate"
    /\ SetReq(w, [req[w] EXCEPT !.pc = "quote_insert",
                                !.ref = NextReference(quotes, month)])
    /\ UNCHANGED <<db, departed, hist, registry>>

\* super().save(), in autocommit: the row is stored, or IntegrityError
\* reaches "except Exception" and the answer is 500.
QuoteInsert(w) ==
    /\ req[w].pc = "quote_insert"
    /\ IF Conflicts(quotes, req[w].ref)
         THEN /\ SetReq(w, [Responded("quote", 0, "integrity_error")
                               EXCEPT !.ref = req[w].ref])
              /\ UNCHANGED quotes
         ELSE /\ quotes' = Append(quotes, req[w].ref)
              /\ SetReq(w, [req[w] EXCEPT !.pc = "quote_notify_customer",
                                          !.target = Len(quotes) + 1])
    /\ UNCHANGED <<db, departed, hist, agents, month, late>>

\* QuoteNotifyCustomer deleting the saved quote when the notification fails:
\* a fault C16 must detect.
QuoteNotifyCustomerRollsBack(w, fails) ==
    /\ req[w].pc = "quote_notify_customer"
    /\ IF fails
         THEN /\ SetReq(w, [Responded("quote", req[w].target, "notify_error")
                               EXCEPT !.ref = req[w].ref])
              /\ quotes' = SubSeq(quotes, 1, req[w].target - 1)
                             \o SubSeq(quotes, req[w].target + 1, Len(quotes))
         ELSE /\ SetReq(w, [req[w] EXCEPT !.pc = "quote_notify_admin"])
              /\ UNCHANGED quotes
    /\ UNCHANGED <<db, departed, hist, agents, month, late>>

\* send_customer_confirmation_email(quote): it returns, or it raises and
\* "except Exception" answers 500; nothing is written either way.
QuoteNotifyCustomer(w, fails) ==
    /\ req[w].pc = "quote_notify_customer"
    /\ IF fails
         THEN SetReq(w, [Responded("quote", req[w].target, "notify_error")
                            EXCEPT !.ref = req[w].ref])
         ELSE SetReq(w, [req[w] EXCEPT !.pc = "quote_notify_admin"])
    /\ UNCHANGED <<db, departed, hist, registry>>

\* send_admin_notification_email(quote), then the 201 with the reference.
QuoteNotifyAdmin(w, fails) ==
    /\ req[w].pc = "quote_notify_admin"
    /\ IF fails
         THEN SetReq(w, [Responded("quote", req[w].target, "notify_error")
                            EXCEPT !.ref = req[w].ref])
         ELSE SetReq(w, [Responded("quote", req[w].target, "ok")
                            EXCEPT !.ref = req[w].ref])
    /\ UNCHANGED <<db, departed, hist, registry>>

\* The clock enters the next month.
NewMonth ==
    /\ month' = month + 1
    /\ UNCHANGED <<db, departed, hist, req, agents, quotes, late>>

\* The statements of worker w on the Agent and BusQuote tables.
Issue(w) ==
    \/ \E valid \in BOOLEAN : MayIssue(agents) /\ AgentValidate(w, valid)
    \/ AgentGenerate(w)
    \/ AgentInsert(w)
    \/ \E valid \in BOOLEAN : MayIssue(quotes) /\ QuoteValidate(w, valid)
    \/ QuoteGenerate(w)
    \/ QuoteInsert(w)
    \/ \E fails \in BOOLEAN : QuoteNotifyCustomer(w, fails)
    \/ \E fails \in BOOLEAN : QuoteNotifyAdmin(w, fails)

\* Registrations and quote requests one at a time.
RefSeqNext ==
    \/ Issue(1)
    \/ month < MaxMonth /\ NewMonth

RefSeqSpec == RefInit /\ [][RefSeqNext]_vars

\* Registrations and quote requests in flight at once.
RefNext ==
    \/ \E w \in 1..Concurrency : Issue(w)
    \/ month < MaxMonth /\ NewMonth

\* Concurrent runs start in a new month.
RefStart == RefInit /\ agents = <<>> /\ quotes = <<>>

RefSpec == RefStart /\ [][RefNext]_vars

(* ------------------- properties of the reference numbers --------------- *)

\* The reference with running number k in month m.
Numbered(m, k) == Period(m) \o ZeroPad(k, Width)

\* Worker w computes a reference in this step.
Generates(w, op) ==
    /\ req[w].pc = (IF op = "register" THEN "agent_generate" ELSE "quote_generate")
    /\ req'[w].pc = (IF op = "register" THEN "agent_insert" ELSE "quote_insert")

\* C12: with calls served one at a time, the k-th reference generated in a
\* month (k - 1 are stored by then) is the month's digits followed by k
\* zero-padded to three digits: 001, 002, ... with no gap and no repetition
\* (RefSeqSpec).
C12_KthReferenceIsK ==
    [][/\ Generates(1, "register") =>
              req'[1].ref = Numbered(month, Cardinality(Matching(agents, Period(month))) + 1)
       /\ Generates(1, "quote") =>
              req'[1].ref = Numbered(month, Cardinality(Matching(quotes, Period(month))) + 1)]_vars

\* C13: with calls served one at a time, a reference just generated differs
\* from every reference stored in its table, however many are stored
\* (RefSeqSpec).
C13_FreshAtGeneration ==
    /\ req[1].pc = "agent_insert" => \A i \in DOMAIN agents : agents[i] # req[1].ref
    /\ req[1].pc = "quote_insert" => \A i \in DOMAIN quotes : quotes[i] # req[1].ref

Distinct(table) == \A i, j \in DOMAIN table : i # j => table[i] # table[j]

\* Worker w has answered a request of kind op with a reference number.
Returned(w, op) == req[w].pc = "done" /\ req[w].op = op /\ req[w].resp = "ok"

\* C14: under concurrent registrations (and concurrent quote requests) no two
\* rows of a table share a reference number, every reference returned is the
\* one of the row the call stored, and no two calls return the same one
\* (RefSpec).
C14_ReferencesUnique ==
    /\ Distinct(agents) /\ Distinct(quotes)
    /\ \A w \in Workers :
          /\ Returned(w, "register") => agents[req[w].target] = req[w].ref
          /\ Returned(w, "quote") => quotes[req[w].target] = req[w].ref
    /\ \A v, w \in Workers, op \in {"register", "quote"} :
          (v # w /\ Returned(v, op) /\ Returned(w, op)) => req[v].ref # req[w].ref

\* Two registrations computed the same reference; one stored and returned it.
C14_Witness ==
    \E v, w \in Workers :
        /\ Returned(v, "register")
        /\ req[w].op = "register" /\ req[w].resp = "integrity_error"
        /\ req[w].ref = req[v].ref

\* C15: no registration and no quote request is answered with the error of
\* the uniqueness constraint: the reference is generated again and the insert
\* retried (RefSpec).
C15_ConstraintErrorNotAnswered ==
    \A w \in Workers : ~(req[w].pc = "done" /\ req[w].resp = "integrity_error")

\* C16: a quote request whose notification failed leaves its quote stored: the
\* row it saved is in the table, with its reference, from then on (RefSpec).
C16_QuoteKeptOnNotifyFailure ==
    \A w \in Workers :
        (req[w].pc = "done" /\ req[w].resp = "notify_error")
            => /\ req[w].target \in DOMAIN quotes
               /\ quotes[req[w].target] = req[w].ref

\* The admin notification of a second quote failed; both quotes are stored.
C16_Witness ==
    \E w \in Workers :
        /\ req[w].pc = "done" /\ req[w].resp = "notify_error"
        /\ req[w].target = 2 /\ Len(quotes) = 2
        /\ quotes[2] = Numbered(month, 2)

(* ------------------- the clock and the overdue listing ----------------- *)

\* DeadlinePasses cancelling the booking and returning its seats when the
\* deadline passes: a fault C17 must detect.
DeadlineExpiresBooking(b) ==
    /\ b \in BookingIds \ late.bookings
    /\ late' = [late EXCEPT !.bookings = @ \cup {b}]
    /\ bookings' = [bookings EXCEPT ![b].booking_status = "cancelled"]
    /\ available_seats' = Release(available_seats, bookings[b].number_of_seats)
    /\ UNCHANGED <<trip_status, departed, payments, req, hist, agents, quotes, month>>

\* The clock passes a booking's payment_deadline (two hours after create()).
DeadlinePasses(b) ==
    /\ b \in BookingIds \ late.bookings
    /\ late' = [late EXCEPT !.bookings = @ \cup {b}]
    /\ UNCHANGED <<db, departed, req, hist, agents, quotes, month>>

\* A payment's created_at is more than two hours ago.
PaymentAges(p) ==
    /\ p \in PaymentIds \ late.payments
    /\ late' = [late EXCEPT !.payments = @ \cup {p}]
    /\ UNCHANGED <<db, departed, req, hist, agents, quotes, month>>

\* get_queryset().filter(status='pending').filter(created_at__lt=deadline),
\* visible being the ids in the caller's get_queryset().
Overdue(visible) ==
    {p \in visible \cap PaymentIds : payments[p].status = "pending" /\ p \in late.payments}

\* PaymentViewSet.pending: the listing is the response.
PendingList(w, visible) ==
    /\ Free(w)
    /\ SetReq(w, [Responded("pending", 0, "ok") EXCEPT !.ids = Overdue(visible)])
    /\ UNCHANGED <<db, departed, hist, registry>>

\* Requests of every kind one at a time, while the clock runs.
ClockNext ==
    \/ Serve(1, MaxBookings, MaxPayments)
    \/ BookSaveTrip(1) /\ UNCHANGED hist
    \/ Tracked(1) /\ CancelSaveTrip(1) /\ UNCHANGED hist
    \/ Tracked(1) /\ RefundSaveTrip(1) /\ UNCHANGED hist
    \/ \E visible \in SUBSET (1..MaxPayments) : PendingList(1, visible)
    \/ \E b \in 1..MaxBookings : DeadlinePasses(b)
    \/ \E p \in 1..MaxPayments : PaymentAges(p)
    \/ Environment

ClockSpec == Init /\ [][ClockNext]_vars

\* Booking b changes its booking_status or payment_status in this step.
StatusChanges(b) ==
    \/ bookings'[b].booking_status # bookings[b].booking_status
    \/ bookings'[b].payment_status # bookings[b].payment_status

\* C17, as stated: a booking past its payment_deadline keeps both statuses
\* and its seats until a cancel or refund request: every step that changes
\* one of them is a statement of a cancel or of a refund (ClockSpec).
C17_OverdueKeptUntilCancelOrRefund ==
    [][\A b \in late.bookings \cap BookingIds :
          (StatusChanges(b) \/ available_seats' > available_seats)
              => \E w \in Workers : req[w].op \in {"cancel", "refund"} /\ req'[w] # req[w]]_vars

\* C17, amended: the passage of time triggers nothing: a step of the clock (a
\* payment_deadline or a payment's two hours pass, the trip departs) changes no
\* trip, booking or payment; the overdue listing changes none either; and the
\* seats of a booking go back to the trip only in the trip.save() of a cancel
\* or a refund.  The statuses of an overdue booking do change on other
\* explicit requests: a payment processed after the deadline (ClockSpec).
C17_TimeTriggersNothing ==
    [][/\ (late' # late \/ departed' # departed) => UNCHANGED db
       /\ \A w \in Workers :
             Takes(w, "pending") => (req'[w].pc = "done" /\ UNCHANGED db)
       /\ available_seats' > available_seats
             => \E w \in Workers : req[w].pc \in {"cancel_save_trip", "refund_save_trip"}]_vars

\* An unpaid booking is past its deadline, still pending with its seats
\* taken; its payment has been listed as overdue.
C17_Witness ==
    /\ 1 \in late.bookings /\ Len(bookings) = 1
    /\ bookings[1].booking_status = "pending" /\ bookings[1].payment_status = "pending"
    /\ available_seats = TotalSeats - bookings[1].number_of_seats
    /\ req[1].pc = "done" /\ req[1].op = "pending" /\ req[1].ids = {1}

(* ------------------- seat numbers -------------------------------------- *)

\* The seat lists a request may give: up to MaxSeatsPerBooking seats of the
\* bus, in any order, a seat possibly more than once.
SeatLists == UNION {[1..k -> 1..TotalSeats] : k \in 1..MaxSeatsPerBooking}

\* Booking creations with any seat list, and cancels, one at a time.
SeatNext ==
    \/ \E n \in 1..MaxSeatsPerBooking, seat_numbers \in SeatLists, well_formed \in BOOLEAN :
           (BookingsClaimed < SeqMaxBookings \/ available_seats < n)
               /\ BookValidate(1, n, seat_numbers, well_formed)
    \/ BookInsert(1)
    \/ BookSaveTrip(1) /\ UNCHANGED hist
    \/ \E b \in 1..SeqMaxBookings, visible \in BOOLEAN : CancelGet(1, b, visible)
    \/ CancelReadTrip(1)
    \/ CancelSaveBooking(1)
    \/ Tracked(1) /\ CancelSaveTrip(1) /\ UNCHANGED hist

SeatSpec == Init /\ [][SeatNext]_vars

\* The seats a booking names.
SeatsNamed(bk) == {bk.seat_numbers[i] : i \in DOMAIN bk.seat_numbers}

Active(bk) == bk.booking_status \in {"pending", "confirmed"}

\* C18: no seat number of the trip is held by two different bookings that are
\* both pending or confirmed (SeatSpec).
C18_NoSeatHeldTwice ==
    \A a, b \in BookingIds :
        (a # b /\ Active(bookings[a]) /\ Active(bookings[b]))
            => SeatsNamed(bookings[a]) \cap SeatsNamed(bookings[b]) = {}

(* ------------------- seats and payments of a booking ------------------- *)

\* C19: with requests served one at a time (creation, cancel, check_in,
\* payment create, process, refund, retry_failed), between two requests
\* available_seats plus the number_of_seats of the bookings that are neither
\* cancelled nor refunded is the trip's initial available_seats (SeqSpec).
C19_SeatsAccountedFor ==
    (\A w \in Workers : Free(w)) => available_seats + SeatsSold = TotalSeats

\* The payments of booking b whose status is successful.
SuccessfulPayments(b) ==
    {p \in PaymentIds : payments[p].booking = b /\ payments[p].status = "successful"}

\* C20: a booking has at most one payment whose status is successful (SeqSpec).
C20_OneSuccessfulPayment ==
    \A b \in BookingIds : Cardinality(SuccessfulPayments(b)) <= 1

(* ------------------- payment and check-in life cycle ------------------- *)

\* The changes of Payment.status the handlers are written for: process,
\* retry_failed, refund.
PaymentMoves ==
    {<<"pending", "successful">>, <<"pending", "failed">>,
     <<"failed", "pending">>, <<"successful", "refunded">>}

\* Worker w executes the statement at pc in this step.
Executes(w, pc) == req[w].pc = pc /\ req'[w] # req[w]

\* C21: a payment's status changes only pending -> successful, pending ->
\* failed, failed -> pending and successful -> refunded; a refunded payment
\* keeps its status, and the refund of a payment is written once only: on a
\* payment that is successful, not on one already refunded (Spec).
C21_PaymentStatusMoves ==
    [][/\ \A p \in PaymentIds :
              payments'[p].status # payments[p].status
                  => <<payments[p].status, payments'[p].status>> \in PaymentMoves
       /\ \A w \in Workers :
              Executes(w, "refund_save_payment")
                  => payments[req[w].target].status = "successful"]_vars

\* Worker w answers the request it takes in this step with an error, and the
\* step writes no row.
RejectedAtOnce(w) == req'[w].pc = "done" /\ req'[w].resp = "error" /\ UNCHANGED db

\* C22: process on a payment that is not pending, and refund on a payment
\* that is not successful, are answered with an error and change no payment,
\* no booking and not available_seats (Spec).
C22_WrongStatusRejected ==
    [][\A w \in Workers :
          /\ (Takes(w, "process") /\ payments[req'[w].target].status # "pending")
                 => RejectedAtOnce(w)
          /\ (Takes(w, "refund") /\ payments[req'[w].target].status # "successful")
                 => RejectedAtOnce(w)]_vars

\* A process request on a refunded payment and a refund request on it have
\* both been answered with an error.
C22_Witness ==
    /\ Len(payments) = 1 /\ payments[1].status = "refunded"
    /\ req[1].pc = "done" /\ req[1].op = "process" /\ req[1].resp = "error"
    /\ req[2].pc = "done" /\ req[2].op = "refund" /\ req[2].resp = "error"
    /\ bookings[1].booking_status = "refunded"

\* C23: process with an unsuccessful gateway response writes the payment
\* only: its status becomes failed, and no other payment, no booking and not
\* available_seats changes, in the step that takes the request and in the
\* payment.save() (Spec).
C23_FailedProcessSetsPaymentOnly ==
    [][\A w \in Workers :
          /\ (Takes(w, "process") /\ req'[w].pc = "process_save_failed") => UNCHANGED db
          /\ Executes(w, "process_save_failed")
                 => /\ payments' = [payments EXCEPT ![req[w].target].status = "failed"]
                    /\ UNCHANGED <<bookings, available_seats, trip_status>>
                    /\ req'[w].pc = "done" /\ req'[w].resp = "declined"]_vars

\* A payment was declined: it is failed, its booking is still pending and
\* unpaid and holds its seats.
C23_Witness ==
    \E w \in Workers :
        /\ req[w].pc = "done" /\ req[w].op = "process" /\ req[w].resp = "declined"
        /\ payments[req[w].target].status = "failed"
        /\ bookings[1].booking_status = "pending" /\ bookings[1].payment_status = "pending"
        /\ available_seats = TotalSeats - bookings[1].number_of_seats

\* C24: retry_failed resets to pending exactly the payments that are among the
\* given ids, visible to the caller and failed; every other payment, every
\* booking and available_seats stay as they are, and a request that finds no
\* such payment changes nothing (SeqSpec).
C24_RetryResetsVisibleFailed ==
    [][\A w \in Workers :
          /\ Takes(w, "retry") => UNCHANGED db
          /\ Executes(w, "retry_update")
                 => /\ Len(payments') = Len(payments)
                    /\ \A p \in PaymentIds :
                          payments'[p] =
                              IF /\ p \in req[w].ids /\ p \in req[w].visible
                                 /\ payments[p].status = "failed"
                                THEN [payments[p] EXCEPT !.status = "pending"]
                                ELSE payments[p]
                    /\ UNCHANGED <<bookings, available_seats, trip_status>>]_vars

\* Of two failed payments a retry has reset the first only: the second was
\* not listed, or not visible to the caller.
C24_Witness ==
    /\ req[1].pc = "done" /\ req[1].op = "retry" /\ req[1].resp = "ok"
    /\ Len(payments) = 2
    /\ payments[1].status = "pending" /\ payments[2].status = "failed"

\* C25: cancel on a booking whose booking_status is completed is answered
\* with an error at once, and cancel on a booking whose trip has departed is
\* answered with an error when it compares scheduled_departure with the
\* clock; neither step changes a booking or available_seats (Spec).
C25_CancelOfPastOrCompletedRejected ==
    [][\A w \in Workers :
          /\ (Takes(w, "cancel") /\ bookings[req'[w].target].booking_status = "completed")
                 => RejectedAtOnce(w)
          /\ (Executes(w, "cancel_read_trip") /\ departed) => RejectedAtOnce(w)]_vars

\* The cancel of a confirmed booking of a departed trip was refused: the
\* booking is still confirmed and holds its seats.
C25_Witness ==
    \E w \in Workers :
        /\ req[w].pc = "done" /\ req[w].op = "cancel" /\ req[w].resp = "error"
        /\ departed
        /\ bookings[req[w].target].booking_status = "confirmed"
        /\ available_seats = TotalSeats - bookings[req[w].target].number_of_seats

\* C26: a check_in is answered ok only for a booking that is confirmed and
\* not yet checked in when the request arrives; the write of a successful
\* check_in finds the row still confirmed and not checked in and changes
\* its check_in_time only; a rejected check_in changes no table.
C26_CheckInOnce ==
    [][\A w \in Workers :
          /\ (Takes(w, "check_in") /\ req'[w].pc = "done") => RejectedAtOnce(w)
          /\ (Takes(w, "check_in") /\ req'[w].pc # "done") =>
                 /\ bookings[req'[w].target].booking_status = "confirmed"
                 /\ ~bookings[req'[w].target].check_in_time
                 /\ UNCHANGED db
          /\ Executes(w, "checkin_save") =>
                 /\ bookings[req[w].target].booking_status = "confirmed"
                 /\ ~bookings[req[w].target].check_in_time
                 /\ bookings' = [bookings EXCEPT ![req[w].target].check_in_time = TRUE]
                 /\ UNCHANGED <<payments, available_seats, trip_status>>
                 /\ req'[w].resp = "ok"]_vars

=============================================================================
